---- MODULE Spec2Model ----
(***************************************************************************)
(* Reminder orchestration of bank-minder.                                  *)
(*                                                                         *)
(* Three reminder modules are modelled, each from its source:              *)
(*   - the shift reminder service  (src/unnamed/part_002, lines 1-495):    *)
(*     startShiftReminder, endShiftReminder, cancelShiftReminder,          *)
(*     initializeLiveActivitySupport;                                      *)
(*   - the live-activity service   (src/unnamed/part_002, lines 497-818):  *)
(*     isLiveActivitySupported, startLiveActivity, endLiveActivity,        *)
(*     sendTransactionNotification;                                        *)
(*   - the check-in reminder utils (src/unnamed/part_001):                 *)
(*     startShiftReminder, endShiftReminder.                               *)
(*                                                                         *)
(* The three are alternative implementations of one reminder interface and *)
(* nothing in the repository calls two of them: a behaviour drives one of  *)
(* them (service), against every environment that one can meet.            *)
(*                                                                         *)
(* Besides Spec there are two more specifications:                         *)
(*   - SpecRace: a startShiftReminder and a cancelShiftReminder of the     *)
(*     shift service in flight at once, interleaved at their awaits;       *)
(*   - SpecApp: the check-in storage (src/unnamed/part_000), its calls     *)
(*     made one after the other or two overlapping, and the handlers of    *)
(*     the home screen (src/app/index.tsx).                                *)
(*                                                                         *)
(* Every asynchronous function is a call record that advances one await    *)
(* at a time.  The native notification centre, the native activity surface *)
(* and the dynamically imported modules are the environment: each call to  *)
(* them either takes effect or throws.                                     *)
(***************************************************************************)
EXTENDS Integers, Sequences, FiniteSets, TLC

\* ------------------------------------------------------------------ bounds
\* number of caller-level invocations in one behaviour
MaxCalls == 3

\* ------------------------------------------------------- program constants
\* lead time in seconds: the "- 900" of the trigger computation
LeadSeconds == 900
\* milliseconds per second: the "/ 1000" of the trigger computation
MsPerSecond == 1000
\* first iOS version with Live Activities: majorVersion > 16 ||
\* (majorVersion === 16 && minorVersion >= 1)
MinMajor == 16
MinMinor == 1
\* smallest trigger delay: the "Math.max(1, ...)" of the trigger computation
MinTrigger == 1

\* ------------------------------------------------------------ input domains
Subjects == {"s1", "s2"}
\* activityData.startTime / endTime (ms) and the values Date.now() returns
StartTimes == {0, 902000, 1201500}
Nows == {1500}
Platforms == {"ios", "android", "web"}
\* what `await import('expo-activity')` gives: it throws, or it yields a
\* module object exporting the listed functions
ActivityModules ==
  { [loads |-> FALSE, fns |-> {}],
    [loads |-> TRUE,  fns |-> {}],
    [loads |-> TRUE,  fns |-> {"startActivity"}],
    [loads |-> TRUE,  fns |-> {"startActivity", "updateActivity", "dismissActivity"}] }
\* what `await import('expo-live-activity')` gives
LiveModules ==
  { [loads |-> FALSE, fns |-> {}],
    [loads |-> TRUE,  fns |-> {}],
    [loads |-> TRUE,  fns |-> {"startActivity", "endActivity"}] }
\* navigator.userAgent as the probe reads it: is `window` defined, does
\* /iPad|iPhone|iPod/ match, does /OS (\d+)_(\d+)/ match and with which groups
UA(w, i, v, ma, mi) == [window |-> w, ios |-> i, hasVer |-> v, major |-> ma, minor |-> mi]
UserAgents ==
  { UA(FALSE, FALSE, FALSE, 0, 0),
    UA(TRUE, FALSE, FALSE, 0, 0),
    UA(TRUE, TRUE, FALSE, 0, 0),
    UA(TRUE, TRUE, TRUE, 16, 0),
    UA(TRUE, TRUE, TRUE, 16, 1) }
Permissions == {"granted", "undetermined", "denied"}

\* ------------------------------------------------------------------- values
Id(k, s, n) == [k |-> k, s |-> s, n |-> n]
NoId == Id("none", "", 0)
NoRes == [status |-> "pending", type |-> "none", id |-> NoId, err |-> "none"]
Ok(type, id) == [status |-> "ok", type |-> type, id |-> id, err |-> "none"]
\* a result object with success: false (the function returned, it did not throw)
Fail == [status |-> "fail", type |-> "none", id |-> NoId, err |-> "none"]
\* the returned promise rejected with an error of class err
Throw(err) == [status |-> "throw", type |-> "none", id |-> NoId, err |-> err]
\* a function of return type void returned
Void == [status |-> "void", type |-> "none", id |-> NoId, err |-> "none"]

VARIABLES
  os,                 \* Platform.OS
  activityModule,     \* the module behind import('expo-activity')
  liveModule,         \* the module behind import('expo-live-activity')
  LiveActivity,       \* part_001's module-level cache `let LiveActivity`
  userAgent,          \* navigator.userAgent / window
  permission,         \* notification permission status held by the OS
  scheduled,          \* notification requests waiting for their trigger
  presented,          \* notifications delivered and shown in the tray
  activities,         \* live activities shown by the native surface
  nextId,             \* source of provider-assigned identifiers
  support,            \* the support report the caller was last given
  service,            \* the reminder module this behaviour drives
  call,               \* the asynchronous call in flight (or the last one)
  prev,               \* the call that settled before this one
  ncalls,             \* calls made so far
  other,              \* a second call in flight, suspended at an await
  AsyncStorage,       \* the key-value store behind part_000
  jobs,               \* the storage calls in flight (or the last ones)
  lastActive,         \* what the last successful setActiveShift stored
  screen              \* the React state of the home screen

vars == <<os, activityModule, liveModule, LiveActivity, userAgent, permission,
          scheduled, presented, activities, nextId, support, service, call, prev, ncalls,
          other, AsyncStorage, jobs, lastActive, screen>>

\* the storage module and the home screen, which no reminder function touches
app == <<AsyncStorage, jobs, lastActive, screen>>

\* what no step of a running call changes: the platform, the call that is
\* suspended meanwhile, and the rest of the application
env == <<os, activityModule, liveModule, userAgent, service, other, app>>

\* the reminder modules, which neither the storage module nor the home screen
\* touches
reminders == <<os, activityModule, liveModule, LiveActivity, userAgent, permission,
               scheduled, presented, activities, nextId, support, call, prev, other>>

\* ----------------------------------------------------- storage values
\* an optional property that is not there
Undefined == "undefined"
\* how JSON text shows a property that stringify left out
Absent == "absent"
\* a CheckInHistory object (date and time play no part in any function)
Entry(id, completed, receiptUri, amount, notes) ==
  [id |-> id, completed |-> completed, receiptUri |-> receiptUri,
   amount |-> amount, notes |-> notes]
Fresh(id) == Entry(id, FALSE, Undefined, Undefined, Undefined)
NoEntry == Fresh("")
\* a value that may be null
Null == [set |-> FALSE, val |-> NoEntry]
Some(e) == [set |-> TRUE, val |-> e]
\* the value under a missing key, as getItem gives it
NoItem == [set |-> FALSE, val |-> <<>>]

\* JSON.stringify leaves out the properties whose value is undefined;
\* JSON.parse gives an object on which reading them yields undefined
Drop(v) == IF v = Undefined THEN Absent ELSE v
Read(v) == IF v = Absent THEN Undefined ELSE v
StringifyEntry(e) ==
  Entry(e.id, e.completed, Drop(e.receiptUri), Drop(e.amount), Drop(e.notes))
ParseEntry(t) ==
  Entry(t.id, t.completed, Read(t.receiptUri), Read(t.amount), Read(t.notes))
Stringify(list) == [i \in 1..Len(list) |-> StringifyEntry(list[i])]
Parse(text) == [i \in 1..Len(text) |-> ParseEntry(text[i])]

\* a storage call: its arguments, the list it read, where it is suspended
\* and how it settled (hist0, readFailed, wrote record what was observed)
NoJob == [op |-> "none", pc |-> "idle", entry |-> NoEntry, id |-> "",
          receiptUri |-> Undefined, amount |-> Undefined, notes |-> Undefined,
          shift |-> Null, list |-> <<>>, hist0 |-> NoItem, readFailed |-> FALSE,
          wrote |-> FALSE, status |-> "pending", value |-> Null]

\* the home screen before its first effect has run: the useState defaults
\* (last records the handler that ran last and the state it started from)
NoShift == [set |-> FALSE, id |-> 0]
NoScreen == [activeShift |-> NoShift, checkInHistory |-> <<>>, isCheckedIn |-> FALSE,
             isLoading |-> FALSE, clock |-> 0,
             last |-> [op |-> "none", history |-> <<>>, activeShift |-> NoShift]]

\* A call record: the arguments and locals of one asynchronous call, the await
\* it is suspended at (pc), and what has been observed of it so far.
\*   op, sid, kind, arg, startTime : the function called and its arguments
\*   now, trigger                  : Date.now() as read, the trigger computed
\*   retry                         : sendTransactionNotification's retry flag
\*   todo                          : notifications still to cancel in a loop
\*   nStart, nSchedule, nRequest   : native calls made by this call
\*   startOk, startThrew           : outcome of the native activity start
\*   schedId                       : id returned by a successful schedule
\*   timerFired                    : the setTimeout callback has run
\*   endOk, dismissOk              : native end / dismiss calls that resolved
\*   notifyFailed                  : a call into the notification provider
\*                                   threw, or the permission was refused
\*   reqWhenDenied                 : the permission was requested while its
\*                                   status was denied
\*   permRefused                   : a permission request was answered no
\*   nEnd                          : native end / dismiss calls issued for
\*                                   an activity by this call
\*   configThrew                   : configureNotifications threw inside
\*                                   initializeLiveActivitySupport
\*   items, updated, failed        : the activity ids a batch was given, those
\*                                   whose native update resolved, and threw
\*   before                        : the resources outstanding at invocation
Idle == [op |-> "none", sid |-> "", kind |-> "", arg |-> NoId, pc |-> "idle",
         startTime |-> 0, now |-> 0, trigger |-> 0, retry |-> FALSE, todo |-> {},
         nStart |-> 0, nSchedule |-> 0, nRequest |-> 0,
         startOk |-> FALSE, startThrew |-> FALSE, schedId |-> NoId,
         timerFired |-> FALSE, endOk |-> FALSE, dismissOk |-> FALSE,
         notifyFailed |-> FALSE, liveActivitySupported |-> FALSE,
         reqWhenDenied |-> FALSE, permRefused |-> FALSE,
         items |-> {}, updated |-> {}, failed |-> {},
         nEnd |-> 0, configThrew |-> FALSE,
         before |-> {}, res |-> NoRes]

\* a notification request: its identifier and the content.data it carries
\* (key is the name of the data field that holds the subject id)
Notif(id, key, sid, type) == [id |-> id, key |-> key, sid |-> sid, type |-> type]
\* a live activity on the native surface
Activity(id, sid) == [id |-> id, key |-> "activity", sid |-> sid, type |-> "activity"]

Ids(S) == {r.id : r \in S}
Outstanding == scheduled \cup presented \cup activities
\* the resources of one subject that are still scheduled or shown
OutstandingFor(sid) == {r \in Outstanding : r.sid = sid}

\* what the previous call leaves for the next one to be compared with
Summary(c) == [op |-> c.op, sid |-> c.sid, arg |-> c.arg, status |-> c.res.status,
               endOk |-> c.endOk, dismissOk |-> c.dismissOk,
               had |-> ({r \in c.before : r.sid = c.sid} # {})]

NoModule == [loads |-> FALSE, fns |-> {}]
NoWindow == UA(FALSE, FALSE, FALSE, 0, 0)

\* the storage module and the home screen at rest
InitAppIdle ==
  /\ AsyncStorage = [history |-> NoItem, active |-> [set |-> FALSE, val |-> NoEntry]]
  /\ jobs = [i \in 1..2 |-> NoJob]
  /\ lastActive = Null
  /\ screen = NoScreen

\* the state before the first call; the parts of the environment a service
\* never reads are left at one value
InitProgram ==
  /\ LiveActivity = [loaded |-> FALSE, fns |-> {}]
  /\ scheduled = {}
  /\ presented = {}
  /\ activities = {}
  /\ nextId = 1
  /\ support = [reported |-> FALSE, liveActivitySupported |-> FALSE,
                notificationsSupported |-> FALSE]
  /\ call = Idle
  /\ prev = Summary(Idle)
  /\ ncalls = 0
  /\ other = Idle
  /\ InitAppIdle

InitShift ==
  /\ service = "shift"
  /\ os \in Platforms
  /\ activityModule \in ActivityModules
  /\ liveModule = NoModule
  /\ userAgent = NoWindow
  /\ permission = "granted"
  /\ InitProgram

InitLive ==
  /\ service = "live"
  /\ os = "web"
  /\ activityModule = NoModule
  /\ liveModule = NoModule
  /\ userAgent \in UserAgents
  /\ permission \in Permissions
  /\ InitProgram

InitCheckIn ==
  /\ service = "checkin"
  /\ os \in Platforms
  /\ activityModule = NoModule
  /\ liveModule \in LiveModules
  /\ userAgent = NoWindow
  /\ permission = "granted"
  /\ InitProgram

\* the trigger computation on its own, over a wide range of times
TriggerTimes ==
  {500 * k : k \in -4..4} \cup {899000 + 250 * k : k \in 0..16} \cup {1200000, 1201500}
TriggerNows == {0, 1, 999, 1500}

InitTrigger ==
  /\ service = "trigger"
  /\ os = "web"
  /\ activityModule = NoModule
  /\ liveModule = NoModule
  /\ userAgent = NoWindow
  /\ permission = "granted"
  /\ LiveActivity = [loaded |-> FALSE, fns |-> {}]
  /\ scheduled = {}
  /\ presented = {}
  /\ activities = {}
  /\ nextId = 1
  /\ support = [reported |-> FALSE, liveActivitySupported |-> FALSE,
                notificationsSupported |-> FALSE]
  /\ \E t \in TriggerTimes, n \in TriggerNows :
       call = [Idle EXCEPT !.op = "trigger", !.pc = "compute", !.startTime = t, !.now = n]
  /\ prev = Summary(Idle)
  /\ ncalls = 1
  /\ other = Idle
  /\ InitAppIdle

\* the capability probe on its own, over a wide range of user agents
ProbeMajors == {15, 16, 17}
ProbeMinors == {0, 1, 2}
ProbeUserAgents ==
  {UA(w, i, FALSE, 0, 0) : w \in BOOLEAN, i \in BOOLEAN} \cup
  {UA(w[1], w[2], TRUE, v[1], v[2]) :
     w \in BOOLEAN \X BOOLEAN, v \in ProbeMajors \X ProbeMinors}

InitProbe ==
  /\ service = "probe"
  /\ os = "web"
  /\ activityModule = NoModule
  /\ liveModule = NoModule
  /\ userAgent \in ProbeUserAgents
  /\ permission = "granted"
  /\ LiveActivity = [loaded |-> FALSE, fns |-> {}]
  /\ scheduled = {}
  /\ presented = {}
  /\ activities = {}
  /\ nextId = 1
  /\ support = [reported |-> FALSE, liveActivitySupported |-> FALSE,
                notificationsSupported |-> FALSE]
  /\ call = [Idle EXCEPT !.op = "probe", !.pc = "compute"]
  /\ prev = Summary(Idle)
  /\ ncalls = 1
  /\ other = Idle
  /\ InitAppIdle

\* the permission helpers on their own
InitPermission ==
  /\ service = "permission"
  /\ os = "web"
  /\ activityModule = NoModule
  /\ liveModule = NoModule
  /\ userAgent = NoWindow
  /\ permission \in Permissions
  /\ InitProgram

Init ==
  InitShift \/ InitLive \/ InitCheckIn \/ InitTrigger \/ InitProbe \/ InitPermission

\* ------------------------------------------------------------ call plumbing
CanCall(svc) == service = svc /\ call.pc \in {"idle", "done"} /\ ncalls < MaxCalls

NewCall(op, sid, pc) ==
  [Idle EXCEPT !.op = op, !.sid = sid, !.pc = pc, !.before = Outstanding]

\* a call is made: the previous one, if any, has settled
Enter(c) ==
  /\ call' = c
  /\ prev' = Summary(call)
  /\ ncalls' = ncalls + 1

\* the call settles with result r (c is the call record as it stands)
Settle(c, r) ==
  /\ call' = [c EXCEPT !.pc = "done", !.res = r]
  /\ UNCHANGED <<prev, ncalls>>

Goto(c, pc) == call' = [c EXCEPT !.pc = pc] /\ UNCHANGED <<prev, ncalls>>

At(op, pc) == call.op = op /\ call.pc = pc

Max(a, b) == IF a >= b THEN a ELSE b

\* ------------------------------------------------------------------------
\* Shift reminder service (part_002, lines 1-495)
\* ------------------------------------------------------------------------

\* getActivityModule(): the functions of the imported module; null (no
\* function at all) off iOS and when the import throws
getActivityModule ==
  IF os = "ios" /\ activityModule.loads THEN activityModule.fns ELSE {}

\* trigger.seconds = Math.max(1, Math.floor((time - Date.now()) / 1000) - 900)
TriggerSecondsUnclamped(time, now) == ((time - now) \div MsPerSecond) - LeadSeconds
TriggerSecondsNoLead(time, now) == Max(MinTrigger, (time - now) \div MsPerSecond)
TriggerSeconds(time, now) ==
  Max(MinTrigger, ((time - now) \div MsPerSecond) - LeadSeconds)

\* the trigger expression evaluated for one pair of times
Trigger_Compute ==
  /\ At("trigger", "compute")
  /\ Goto([call EXCEPT !.trigger = TriggerSeconds(call.startTime, call.now)], "done")
  /\ UNCHANGED <<env, LiveActivity, permission, scheduled, presented, activities, nextId, support>>

\* where startShiftReminder goes when activityModule.startActivity throws:
\* the inner catch only warns, control falls through to the notification
ShiftStartOnActivityErrorRethrow == "fail"
ShiftStartOnActivityError == "schedule"

\* what startShiftReminder's outer catch gives the caller
ShiftStartOnErrorThrow == Throw("Error")
ShiftStartOnError == Fail

\* where startShiftReminder goes after startActivity resolved: it returns
ShiftStartAfterActivityFallThrough == "schedule"
ShiftStartAfterActivity == "return"

\* startShiftReminder(activityData) is called
ShiftStart_Call(sid, t) ==
  /\ CanCall("shift")
  /\ Enter([NewCall("shiftStart", sid, "configure") EXCEPT !.startTime = t, !.kind = "start"])
  /\ UNCHANGED <<env, LiveActivity, permission, scheduled, presented, activities, nextId, support>>

\* endShiftReminder(activityData) is called
ShiftEnd_Call(sid, t) ==
  /\ CanCall("shift")
  /\ Enter([NewCall("shiftEnd", sid, "configure") EXCEPT !.startTime = t, !.kind = "end"])
  /\ UNCHANGED <<env, LiveActivity, permission, scheduled, presented, activities, nextId, support>>

\* configureNotifications(): setNotificationHandler registers a callback; the
\* native calls it awaits are the two setNotificationChannelAsync on Android,
\* whose rejection it rethrows
configureNotificationsMayThrow == os = "android"

\* await configureNotifications(): the outer catch of the caller turns what it
\* throws into a success: false result
Shift_Configure ==
  /\ call.op \in {"shiftStart", "shiftEnd"} /\ call.pc = "configure"
  /\ \/ configureNotificationsMayThrow /\ Settle(call, ShiftStartOnError)
     \/ Goto(call, IF os = "ios" THEN "import" ELSE "schedule")
  /\ UNCHANGED <<env, LiveActivity, permission, scheduled, presented, activities, nextId, support>>

\* where startShiftReminder goes when getActivityModule() gave null or a
\* module without startActivity: `if (activityModule?.startActivity)` is
\* skipped, control falls through to the notification
ShiftStartOnNoModuleFatal == "fail"
ShiftStartOnNoModule == "schedule"

\* const activityModule = await getActivityModule(), then the capability tests
ShiftStart_Import ==
  /\ At("shiftStart", "import")
  /\ IF "startActivity" \in getActivityModule THEN Goto(call, "startActivity")
     ELSE IF ShiftStartOnNoModule = "fail" THEN Settle(call, ShiftStartOnError)
     ELSE Goto(call, ShiftStartOnNoModule)
  /\ UNCHANGED <<env, LiveActivity, permission, scheduled, presented, activities, nextId, support>>

ShiftEnd_Import ==
  /\ At("shiftEnd", "import")
  /\ Goto(call, IF "updateActivity" \in getActivityModule THEN "updateActivity"
                ELSE IF "startActivity" \in getActivityModule THEN "startActivity"
                ELSE "schedule")
  /\ UNCHANGED <<env, LiveActivity, permission, scheduled, presented, activities, nextId, support>>

\* await activityModule.startActivity({id: `shift-<kind>-<shiftId>`, ...})
Shift_StartActivity ==
  /\ call.op \in {"shiftStart", "shiftEnd"} /\ call.pc = "startActivity"
  /\ LET c  == [call EXCEPT !.nStart = @ + 1]
         id == Id("shift-" \o call.kind, call.sid, 0)
     IN  \/ /\ activities' = activities \cup {Activity(id, call.sid)}
            /\ IF ShiftStartAfterActivity = "return"
               THEN Settle([c EXCEPT !.startOk = TRUE], Ok("activity", id))
               ELSE Goto([c EXCEPT !.startOk = TRUE], "schedule")
         \/ /\ UNCHANGED activities
            /\ IF ShiftStartOnActivityError = "schedule"
               THEN Goto([c EXCEPT !.startThrew = TRUE], "schedule")
               ELSE Settle([c EXCEPT !.startThrew = TRUE], ShiftStartOnError)
  /\ UNCHANGED <<env, LiveActivity, permission, scheduled, presented, nextId, support>>

\* await activityModule.updateActivity({id: `shift-end-<shiftId>`, ...}):
\* resolved -> the function returns; thrown -> warn, fall to the notification
ShiftEnd_UpdateActivity ==
  /\ At("shiftEnd", "updateActivity")
  /\ \/ Settle(call, Ok("activity", Id("shift-end", call.sid, 0)))
     \/ Goto([call EXCEPT !.failed = {Id("shift-end", call.sid, 0)}], "schedule")
  /\ UNCHANGED <<env, LiveActivity, permission, scheduled, presented, activities, nextId, support>>

\* await Notifications.scheduleNotificationAsync({content: {data: {shiftId}},
\* trigger: {seconds}}): Date.now() is read when the argument is built
Shift_Schedule ==
  /\ call.op \in {"shiftStart", "shiftEnd"} /\ call.pc = "schedule"
  /\ \E now \in Nows :
       LET c  == [call EXCEPT !.now = now, !.nSchedule = @ + 1,
                              !.trigger = TriggerSeconds(call.startTime, now)]
           id == Id("notif", "", nextId)
           ty == IF call.op = "shiftStart" THEN "shift-reminder" ELSE "shift-end-reminder"
       IN  \/ /\ scheduled' = scheduled \cup {Notif(id, "shiftId", call.sid, ty)}
              /\ nextId' = nextId + 1
              /\ Settle([c EXCEPT !.schedId = id], Ok("notification", id))
           \/ /\ UNCHANGED <<scheduled, nextId>>
              /\ Settle([c EXCEPT !.notifyFailed = TRUE], ShiftStartOnError)
  /\ UNCHANGED <<env, LiveActivity, permission, presented, activities, support>>

\* the native scheduler fires a pending trigger: the notification is shown
Deliver ==
  /\ \E n \in scheduled :
       /\ scheduled' = scheduled \ {n}
       /\ presented' = presented \cup {n}
  /\ UNCHANGED <<env, LiveActivity, permission, activities, nextId, support, call, prev, ncalls>>

\* cancelShiftReminder(shiftId, type) is called
ShiftCancel_Call(sid, type) ==
  /\ CanCall("shift")
  /\ Enter([NewCall("shiftCancel", sid, IF os = "ios" THEN "import" ELSE "list")
              EXCEPT !.kind = type])
  /\ UNCHANGED <<env, LiveActivity, permission, scheduled, presented, activities, nextId, support>>

ShiftCancel_Import ==
  /\ At("shiftCancel", "import")
  /\ Goto(call, IF "dismissActivity" \in getActivityModule THEN "dismissActivity" ELSE "list")
  /\ UNCHANGED <<env, LiveActivity, permission, scheduled, presented, activities, nextId, support>>

\* await activityModule.dismissActivity({id: `shift-<type>-<shiftId>`}):
\* resolved -> the function returns success; thrown -> warn, go on to the list
ShiftCancel_DismissActivity ==
  /\ At("shiftCancel", "dismissActivity")
  /\ \/ /\ activities' = {a \in activities : a.id # Id("shift-" \o call.kind, call.sid, 0)}
        /\ Settle([call EXCEPT !.endOk = TRUE, !.nEnd = @ + 1], Ok("none", NoId))
     \/ /\ UNCHANGED activities
        /\ Goto([call EXCEPT !.nEnd = @ + 1], "list")
  /\ UNCHANGED <<env, LiveActivity, permission, scheduled, presented, nextId, support>>

\* allNotifications.filter(notif => notif.content.data?.shiftId === shiftId)
relevantNotificationsUnfiltered(all, shiftId) ==
  all
relevantNotificationsByCheckInId(all, shiftId) ==
  {n \in all : n.key = "checkInId" /\ n.sid = shiftId}
relevantNotifications(all, shiftId) ==
  {n \in all : n.key = "shiftId" /\ n.sid = shiftId}

\* cancelShiftReminder's outer catch: console.error, return {success: false}
ShiftCancelOnErrorThrow == Throw("Error")
ShiftCancelOnError == Fail

\* await Notifications.getAllScheduledNotificationsAsync(), then the filter
ShiftCancel_List ==
  /\ At("shiftCancel", "list")
  /\ \/ Settle([call EXCEPT !.notifyFailed = TRUE], ShiftCancelOnError)
     \/ LET rel == relevantNotifications(scheduled, call.sid)
        IN  IF rel = {} THEN Settle(call, Ok("none", NoId))
            ELSE Goto([call EXCEPT !.todo = Ids(rel)], "cancelNext")
  /\ UNCHANGED <<env, LiveActivity, permission, scheduled, presented, activities, nextId, support>>

\* one round of the loop: await Notifications.cancelScheduledNotificationAsync(id)
ShiftCancel_CancelNext ==
  /\ At("shiftCancel", "cancelNext")
  /\ \E id \in call.todo :
       \/ /\ scheduled' = {n \in scheduled : n.id # id}
          /\ LET c == [call EXCEPT !.todo = @ \ {id}]
             IN  IF c.todo = {} THEN Settle([c EXCEPT !.dismissOk = TRUE], Ok("none", NoId))
                 ELSE Goto(c, "cancelNext")
       \/ /\ UNCHANGED scheduled
          /\ Settle([call EXCEPT !.notifyFailed = TRUE], ShiftCancelOnError)
  /\ UNCHANGED <<env, LiveActivity, permission, presented, activities, nextId, support>>

\* initializeLiveActivitySupport() is called
Support_Call ==
  /\ CanCall("shift")
  /\ Enter(NewCall("supportInit", "", IF os = "ios" THEN "import" ELSE "getPermissions"))
  /\ UNCHANGED <<env, LiveActivity, permission, scheduled, presented, activities, nextId, support>>

\* liveActivitySupported = Boolean(activityModule?.startActivity)
SupportFlagWrongFunction(fns) == "endActivity" \in fns
SupportFlag(fns) == "startActivity" \in fns

Support_Import ==
  /\ At("supportInit", "import")
  /\ Goto([call EXCEPT !.liveActivitySupported = SupportFlag(getActivityModule)],
          "getPermissions")
  /\ UNCHANGED <<env, LiveActivity, permission, scheduled, presented, activities, nextId, support>>

Report(c, l, n) ==
  /\ support' = [reported |-> TRUE, liveActivitySupported |-> l, notificationsSupported |-> n]
  /\ Settle(c, Ok("report", NoId))

\* the flags initializeLiveActivitySupport's outer catch returns (l, n are
\* the flags computed before configureNotifications threw)
SupportOnConfigureErrorKeepsFlags(l, n) == <<l, n>>
SupportOnConfigureError(l, n) == <<FALSE, FALSE>>

\* await Notifications.getPermissionsAsync() inside its own try; then
\* `if (notificationsSupported) await configureNotifications()`, whose throw
\* reaches the outer catch: both flags false
Support_GetPermissions ==
  /\ At("supportInit", "getPermissions")
  /\ \/ Report([call EXCEPT !.notifyFailed = TRUE], call.liveActivitySupported, FALSE)
     \/ Report(call, call.liveActivitySupported, TRUE)
     \/ /\ configureNotificationsMayThrow
        /\ LET f == SupportOnConfigureError(call.liveActivitySupported, TRUE)
           IN  Report([call EXCEPT !.configThrew = TRUE], f[1], f[2])
  /\ UNCHANGED <<env, LiveActivity, permission, scheduled, presented, activities, nextId>>

NextShift ==
  \/ Trigger_Compute
  \/ \E sid \in Subjects, type \in {"start", "end"} : ShiftCancel_Call(sid, type)
  \/ ShiftCancel_Import
  \/ ShiftCancel_DismissActivity
  \/ ShiftCancel_List
  \/ ShiftCancel_CancelNext
  \/ Support_Call
  \/ Support_Import
  \/ Support_GetPermissions
  \/ \E sid \in Subjects, t \in StartTimes : ShiftStart_Call(sid, t)
  \/ \E sid \in Subjects, t \in StartTimes : ShiftEnd_Call(sid, t)
  \/ Shift_Configure
  \/ ShiftStart_Import
  \/ ShiftEnd_Import
  \/ Shift_StartActivity
  \/ ShiftEnd_UpdateActivity
  \/ Shift_Schedule
  \/ Deliver

\* ------------------------------------------------------------------------
\* Live-activity service (part_002, lines 497-818)
\* ------------------------------------------------------------------------

\* isLiveActivitySupported(): false without window, without an iOS device
\* name or without a version in the user agent, else the version test;
\* whatever is thrown inside is caught and gives false
isLiveActivitySupportedMinorEveryMajor(ua) ==
  IF ~ua.window THEN FALSE
  ELSE IF ~ua.ios THEN FALSE
  ELSE IF ~ua.hasVer THEN FALSE
  ELSE ua.major >= MinMajor /\ ua.minor >= MinMinor
isLiveActivitySupported(ua) ==
  IF ~ua.window THEN FALSE
  ELSE IF ~ua.ios THEN FALSE
  ELSE IF ~ua.hasVer THEN FALSE
  ELSE ua.major > MinMajor \/ (ua.major = MinMajor /\ ua.minor >= MinMinor)

\* isLiveActivitySupported() evaluated for one user agent
Probe_Compute ==
  /\ At("probe", "compute")
  /\ Settle([call EXCEPT !.liveActivitySupported = isLiveActivitySupported(userAgent)],
            Ok("report", NoId))
  /\ UNCHANGED <<env, LiveActivity, permission, scheduled, presented, activities, nextId, support>>

\* what sendTransactionNotification's catch does with the retry flag it was
\* called with: schedule the retry on a timer, or wrap and throw
SendOnErrorNoTimer(retry) == IF retry THEN "getPermissions" ELSE "reject"
SendOnError(retry) == IF retry THEN "timer" ELSE "reject"

\* the error class that leaves sendTransactionNotification
SendErrorUnwrapped == "Error"
SendError == "NotificationError"

\* the error class that leaves startLiveActivity's outer catch
LiveStartError == "ActivityError"

\* where startLiveActivity goes when startNativeLiveActivity throws: the
\* inner catch only warns, control falls through to the notification
LiveStartOnActivityError == "getPermissions"

\* startLiveActivity(attributes, state) is called; the probe runs at once
LiveStart_Call(sid) ==
  /\ CanCall("live")
  /\ Enter([NewCall("liveStart", sid,
                    IF isLiveActivitySupported(userAgent) THEN "nativeStart"
                    ELSE "getPermissions")
              EXCEPT !.retry = TRUE])
  /\ UNCHANGED <<env, LiveActivity, permission, scheduled, presented, activities, nextId, support>>

\* sendTransactionNotification(payload, retry) is called by the application
Send_Call(sid, retry) ==
  /\ CanCall("live")
  /\ Enter([NewCall("send", sid, "getPermissions") EXCEPT !.retry = retry])
  /\ UNCHANGED <<env, LiveActivity, permission, scheduled, presented, activities, nextId, support>>

\* the promise of sendTransactionNotification resolves with id
SendResolve(c, id) == Settle([c EXCEPT !.schedId = id], Ok("notification", id))

\* the promise of sendTransactionNotification rejects; startLiveActivity's
\* outer catch wraps what it awaited into an ActivityError
SendReject(c) ==
  Settle(c, Throw(IF c.op = "liveStart" THEN LiveStartError ELSE SendError))

\* the catch block of sendTransactionNotification
SendCatch(c) ==
  LET d == [c EXCEPT !.notifyFailed = TRUE]
  IN  IF SendOnError(c.retry) = "reject" THEN SendReject(d)
      ELSE Goto(d, SendOnError(c.retry))

\* await startNativeLiveActivity(attributes, state): the native surface
\* assigns the id; the call stands for native code and may throw
LiveStart_NativeStart ==
  /\ At("liveStart", "nativeStart")
  /\ LET c  == [call EXCEPT !.nStart = @ + 1]
         id == Id("activity", "", nextId)
     IN  \/ /\ activities' = activities \cup {Activity(id, call.sid)}
            /\ nextId' = nextId + 1
            /\ Settle([c EXCEPT !.startOk = TRUE], Ok("activity", id))
         \/ /\ UNCHANGED <<activities, nextId>>
            /\ IF LiveStartOnActivityError = "reject"
               THEN Settle([c EXCEPT !.startThrew = TRUE], Throw(LiveStartError))
               ELSE Goto([c EXCEPT !.startThrew = TRUE], LiveStartOnActivityError)
  /\ UNCHANGED <<env, LiveActivity, permission, scheduled, presented, support>>

\* const { granted } = await Notifications.getPermissionsAsync()
Send_GetPermissions ==
  /\ call.op \in {"liveStart", "send"} /\ call.pc = "getPermissions"
  /\ \/ SendCatch(call)
     \/ Goto(call, IF permission = "granted" THEN "schedule" ELSE "requestPermissions")
  /\ UNCHANGED <<env, LiveActivity, permission, scheduled, presented, activities, nextId, support>>

\* const { granted } = await Notifications.requestPermissionsAsync(): the
\* user answers a first prompt; a denied status is returned as it is
Send_RequestPermissions ==
  /\ call.op \in {"liveStart", "send"} /\ call.pc = "requestPermissions"
  /\ LET c == [call EXCEPT !.nRequest = @ + 1,
                            !.reqWhenDenied = @ \/ permission = "denied"]
     IN  \/ UNCHANGED permission /\ SendCatch(c)
         \/ /\ permission = "undetermined"
            /\ permission' = "granted"
            /\ Goto(c, "schedule")
         \/ /\ permission' = "denied"
            /\ SendCatch([c EXCEPT !.permRefused = TRUE])
  /\ UNCHANGED <<env, LiveActivity, scheduled, presented, activities, nextId, support>>

\* await Notifications.scheduleNotificationAsync({content, trigger: null}):
\* no trigger, the notification is shown at once
Send_Schedule ==
  /\ call.op \in {"liveStart", "send"} /\ call.pc = "schedule"
  /\ LET c  == [call EXCEPT !.nSchedule = @ + 1]
         id == Id("notif", "", nextId)
         ty == IF call.op = "liveStart" THEN "transaction" ELSE "payload"
     IN  \/ /\ presented' = presented \cup {Notif(id, "transactionId", call.sid, ty)}
            /\ nextId' = nextId + 1
            /\ SendResolve(c, id)
         \/ /\ UNCHANGED <<presented, nextId>>
            /\ SendCatch(c)
  /\ UNCHANGED <<env, LiveActivity, permission, scheduled, activities, support>>

\* the setTimeout(..., 1000) callback runs: sendTransactionNotification(payload, false)
Send_Timer ==
  /\ call.op \in {"liveStart", "send"} /\ call.pc = "timer"
  /\ Goto([call EXCEPT !.retry = FALSE, !.timerFired = TRUE], "getPermissions")
  /\ UNCHANGED <<env, LiveActivity, permission, scheduled, presented, activities, nextId, support>>

\* the ids a caller holds for a subject: what is outstanding for it and what
\* the last call for it was given or returned
KnownIds(sid) ==
  {r.id : r \in OutstandingFor(sid)}
    \cup (IF call.sid = sid THEN {call.arg, call.res.id} \ {NoId} ELSE {})

\* endLiveActivity(activityId) is called; without support it returns at once
LiveEnd_Call(sid, id) ==
  /\ CanCall("live")
  /\ LET c == [NewCall("liveEnd", sid, "nativeEnd") EXCEPT !.arg = id]
     IN  Enter(IF isLiveActivitySupported(userAgent) THEN c
               ELSE [c EXCEPT !.pc = "done", !.res = Void])
  /\ UNCHANGED <<env, LiveActivity, permission, scheduled, presented, activities, nextId, support>>

\* await endNativeLiveActivity(activityId, finalState); a throw is logged only
LiveEnd_NativeEnd ==
  /\ At("liveEnd", "nativeEnd")
  /\ \/ /\ activities' = {a \in activities : a.id # call.arg}
        /\ Settle([call EXCEPT !.endOk = TRUE, !.nEnd = @ + 1], Void)
     \/ /\ UNCHANGED activities
        /\ Settle([call EXCEPT !.nEnd = @ + 1], Void)
  /\ UNCHANGED <<env, LiveActivity, permission, scheduled, presented, nextId, support>>

\* an activity id the native layer does not know (a stale handle)
StaleId == Id("activity", "", 0)

\* updateLiveActivity(activityId, state) is called; without support it
\* returns at once
LiveUpdate_Call(sid, id) ==
  /\ CanCall("live")
  /\ LET sup == isLiveActivitySupported(userAgent)
         c   == [NewCall("liveUpdate", sid, "nativeUpdate")
                   EXCEPT !.arg = id, !.items = {id}, !.liveActivitySupported = sup]
     IN  Enter(IF sup THEN c ELSE [c EXCEPT !.pc = "done", !.res = Void])
  /\ UNCHANGED <<env, LiveActivity, permission, scheduled, presented, activities, nextId, support>>

\* await updateNativeLiveActivity(activityId, state): resolved, or thrown
\* (an id the native layer does not know); the catch logs and returns
LiveUpdate_NativeUpdate ==
  /\ At("liveUpdate", "nativeUpdate")
  /\ \/ Settle([call EXCEPT !.updated = {call.arg}], Void)
     \/ Settle([call EXCEPT !.failed = {call.arg}], Void)
  /\ UNCHANGED <<env, LiveActivity, permission, scheduled, presented, activities, nextId, support>>
\* the arrays of updates a caller can pass: any set of known or stale ids
BatchInputs == SUBSET (Ids(activities) \cup {StaleId})

\* what becomes of the other updates of a batch when one of them fails: the
\* failure is caught inside updateLiveActivity (and again by the .catch on
\* each mapped promise), the others go on
BatchOnItemErrorAbort == "abort"
BatchOnItemError == "continue"

\* batchUpdateLiveActivities(updates) is called: updates.map(...) calls
\* updateLiveActivity for every element before anything is awaited; each of
\* these returns at once when the device is unsupported, else it is
\* suspended in updateNativeLiveActivity
Batch_Call(ids) ==
  /\ CanCall("live")
  /\ LET sup == isLiveActivitySupported(userAgent)
         c   == [NewCall("batch", "", "update")
                   EXCEPT !.items = ids, !.liveActivitySupported = sup]
     IN  IF sup /\ ids # {} THEN Enter([c EXCEPT !.todo = ids])
         ELSE Enter([c EXCEPT !.pc = "done", !.res = Void])
  /\ UNCHANGED <<env, LiveActivity, permission, scheduled, presented, activities, nextId, support>>

\* one of the pending updateNativeLiveActivity calls settles: resolved, or
\* thrown and swallowed by updateLiveActivity's catch; Promise.all resolves
\* when the last of them has settled
Batch_UpdateOne ==
  /\ At("batch", "update")
  /\ \E id \in call.todo :
       \/ LET c == [call EXCEPT !.todo = @ \ {id}, !.updated = @ \cup {id}]
          IN  IF c.todo = {} THEN Settle(c, Void) ELSE Goto(c, "update")
       \/ LET c == [call EXCEPT !.todo = @ \ {id}, !.failed = @ \cup {id}]
          IN  IF c.todo = {} \/ BatchOnItemError = "abort" THEN Settle(c, Void)
              ELSE Goto(c, "update")
  /\ UNCHANGED <<env, LiveActivity, permission, scheduled, presented, activities, nextId, support>>

\* getLiveActivitySupportInfo().isSupported is read
SupportInfo_Call ==
  /\ CanCall("live")
  /\ Enter([NewCall("supportInfo", "", "done") EXCEPT !.res = Ok("report", NoId)])
  /\ support' = [reported |-> TRUE,
                 liveActivitySupported |-> isLiveActivitySupported(userAgent),
                 notificationsSupported |-> FALSE]
  /\ UNCHANGED <<env, LiveActivity, permission, scheduled, presented, activities, nextId>>

NextLive ==
  \/ Probe_Compute
  \/ \E sid \in Subjects : \E id \in KnownIds(sid) \cup {StaleId} : LiveUpdate_Call(sid, id)
  \/ LiveUpdate_NativeUpdate
  \/ \E ids \in BatchInputs : Batch_Call(ids)
  \/ Batch_UpdateOne
  \/ \E sid \in Subjects : LiveStart_Call(sid)
  \/ \E sid \in Subjects, retry \in BOOLEAN : Send_Call(sid, retry)
  \/ LiveStart_NativeStart
  \/ Send_GetPermissions
  \/ Send_RequestPermissions
  \/ Send_Schedule
  \/ Send_Timer
  \/ \E sid \in Subjects : \E id \in KnownIds(sid) : LiveEnd_Call(sid, id)
  \/ LiveEnd_NativeEnd
  \/ SupportInfo_Call

\* ------------------------------------------------------------------------
\* Permission helpers (part_002 lines 107-143, part_000 lines 139-160)
\* ------------------------------------------------------------------------

\* a permission status as a returned value
Status(st) == Ok(st, NoId)

\* requestNotificationPermissions() of the shift service is called
PermRequest_Call ==
  /\ CanCall("permission")
  /\ Enter(NewCall("permRequest", "", "getPermissions"))
  /\ UNCHANGED <<env, LiveActivity, permission, scheduled, presented, activities, nextId, support>>

\* const { status: existingStatus } = await Notifications.getPermissionsAsync();
\* a throw is caught and reported as status 'error'
PermRequest_GetPermissions ==
  /\ At("permRequest", "getPermissions")
  /\ \/ Settle([call EXCEPT !.notifyFailed = TRUE], Status("error"))
     \/ IF permission # "granted" THEN Goto(call, "requestPermissions")
        ELSE Settle(call, Status(permission))
  /\ UNCHANGED <<env, LiveActivity, permission, scheduled, presented, activities, nextId, support>>

\* const { status } = await Notifications.requestPermissionsAsync({ios: ...})
PermRequest_RequestPermissions ==
  /\ At("permRequest", "requestPermissions")
  /\ LET c == [call EXCEPT !.nRequest = @ + 1,
                            !.reqWhenDenied = @ \/ permission = "denied"]
     IN  \/ /\ UNCHANGED permission
            /\ Settle([c EXCEPT !.notifyFailed = TRUE], Status("error"))
         \/ /\ permission = "undetermined"
            /\ permission' = "granted"
            /\ Settle(c, Status("granted"))
         \/ /\ permission' = "denied"
            /\ Settle([c EXCEPT !.permRefused = TRUE], Status("denied"))
  /\ UNCHANGED <<env, LiveActivity, scheduled, presented, activities, nextId, support>>

\* the browser's requestNotificationPermission() is called; hasApi is what
\* `'Notification' in window` gives.  Without the API it returns 'denied',
\* with the permission granted or denied it returns the permission, and
\* only otherwise does it go on to Notification.requestPermission()
WebPermission_Call(hasApi) ==
  /\ CanCall("permission")
  /\ LET c == [NewCall("webPermission", "", "requestPermission")
                 EXCEPT !.kind = IF hasApi THEN "Notification" ELSE "none"]
     IN  IF ~hasApi THEN Enter([c EXCEPT !.pc = "done", !.res = Status("denied")])
         ELSE IF permission = "granted"
           THEN Enter([c EXCEPT !.pc = "done", !.res = Status("granted")])
         ELSE IF permission # "denied" THEN Enter(c)
         ELSE Enter([c EXCEPT !.pc = "done", !.res = Status(permission)])
  /\ UNCHANGED <<env, LiveActivity, permission, scheduled, presented, activities, nextId, support>>

\* const permission = await Notification.requestPermission(): the user
\* grants, refuses or closes the prompt; a throw is returned as 'denied'
WebPermission_RequestPermission ==
  /\ At("webPermission", "requestPermission")
  /\ LET c == [call EXCEPT !.nRequest = @ + 1,
                            !.reqWhenDenied = @ \/ permission = "denied"]
     IN  \/ /\ UNCHANGED permission
            /\ Settle([c EXCEPT !.notifyFailed = TRUE], Status("denied"))
         \/ \E answer \in Permissions :
              /\ permission' = answer
              /\ Settle([c EXCEPT !.permRefused = (answer = "denied")],
                        Status(IF answer = "undetermined" THEN "default" ELSE answer))
  /\ UNCHANGED <<env, LiveActivity, scheduled, presented, activities, nextId, support>>

NextPermission ==
  \/ PermRequest_Call
  \/ PermRequest_GetPermissions
  \/ PermRequest_RequestPermissions
  \/ \E hasApi \in BOOLEAN : WebPermission_Call(hasApi)
  \/ WebPermission_RequestPermission

\* ------------------------------------------------------------------------
\* Check-in reminder utils (part_001)
\* ------------------------------------------------------------------------

\* where part_001's startShiftReminder goes when startActivity (or the
\* import) throws: the inner catch only warns
CheckInStartOnActivityError == "schedule"

\* what part_001's startShiftReminder gives the caller from its outer catch:
\* throw new Error('Could not start shift reminder')
CheckInStartOnError == Throw("Error")

\* what part_001's endShiftReminder gives the caller from its outer catch:
\* the error is logged and the function returns
CheckInEndOnErrorRethrow == Throw("Error")
CheckInEndOnError == Void

\* startShiftReminder(checkInId, shiftData) is called
CheckInStart_Call(sid) ==
  /\ CanCall("checkin")
  /\ Enter(NewCall("checkInStart", sid, IF os = "ios" THEN "import" ELSE "schedule"))
  /\ UNCHANGED <<env, LiveActivity, permission, scheduled, presented, activities, nextId, support>>

\* endShiftReminder(checkInId, notificationId) is called
CheckInEnd_Call(sid) ==
  /\ CanCall("checkin")
  /\ Enter(NewCall("checkInEnd", sid, IF os = "ios" THEN "import" ELSE "dismiss"))
  /\ UNCHANGED <<env, LiveActivity, permission, scheduled, presented, activities, nextId, support>>

\* LiveActivity = LiveActivity ?? (await import('expo-live-activity')), then
\* `if (LiveActivity?.startActivity)` / `if (LiveActivity?.endActivity)`;
\* a failed import is caught by the inner catch
CheckIn_Import ==
  /\ call.op \in {"checkInStart", "checkInEnd"} /\ call.pc = "import"
  /\ LET fn   == IF call.op = "checkInStart" THEN "startActivity" ELSE "endActivity"
         skip == IF call.op = "checkInStart" THEN CheckInStartOnActivityError ELSE "dismiss"
     IN  IF LiveActivity.loaded
         THEN /\ UNCHANGED LiveActivity
              /\ Goto(call, IF fn \in LiveActivity.fns THEN fn ELSE skip)
         ELSE IF liveModule.loads
         THEN /\ LiveActivity' = [loaded |-> TRUE, fns |-> liveModule.fns]
              /\ Goto(call, IF fn \in liveModule.fns THEN fn ELSE skip)
         ELSE /\ UNCHANGED LiveActivity
              /\ Goto(call, skip)
  /\ UNCHANGED <<env, permission, scheduled, presented, activities, nextId, support>>

\* await LiveActivity.startActivity({...}, {activityId: checkInId, ...}); the
\* function returns {type: 'live-activity', id: checkInId}
CheckInStart_StartActivity ==
  /\ At("checkInStart", "startActivity")
  /\ LET c  == [call EXCEPT !.nStart = @ + 1]
         id == Id("checkIn", call.sid, 0)
     IN  \/ /\ activities' = activities \cup {Activity(id, call.sid)}
            /\ Settle([c EXCEPT !.startOk = TRUE], Ok("activity", id))
         \/ /\ UNCHANGED activities
            /\ IF CheckInStartOnActivityError = "reject"
               THEN Settle([c EXCEPT !.startThrew = TRUE], Throw("Error"))
               ELSE Goto([c EXCEPT !.startThrew = TRUE], CheckInStartOnActivityError)
  /\ UNCHANGED <<env, LiveActivity, permission, scheduled, presented, nextId, support>>

\* await Notifications.scheduleNotificationAsync({content: {data: {checkInId}},
\* trigger: null}); the outer catch throws new Error('Could not start ...')
CheckInStart_Schedule ==
  /\ At("checkInStart", "schedule")
  /\ LET c  == [call EXCEPT !.nSchedule = @ + 1]
         id == Id("notif", "", nextId)
     IN  \/ /\ presented' = presented \cup {Notif(id, "checkInId", call.sid, "shift_reminder")}
            /\ nextId' = nextId + 1
            /\ Settle([c EXCEPT !.schedId = id], Ok("notification", id))
         \/ /\ UNCHANGED <<presented, nextId>>
            /\ Settle([c EXCEPT !.notifyFailed = TRUE], CheckInStartOnError)
  /\ UNCHANGED <<env, LiveActivity, permission, scheduled, activities, support>>

\* await LiveActivity.endActivity(checkInId); a throw is caught and warned
CheckInEnd_EndActivity ==
  /\ At("checkInEnd", "endActivity")
  /\ \/ /\ activities' = {a \in activities : a.id # Id("checkIn", call.sid, 0)}
        /\ Goto([call EXCEPT !.endOk = TRUE, !.nEnd = @ + 1], "dismiss")
     \/ /\ UNCHANGED activities
        /\ Goto([call EXCEPT !.nEnd = @ + 1], "dismiss")
  /\ UNCHANGED <<env, LiveActivity, permission, scheduled, presented, nextId, support>>

\* await Notifications.dismissAllNotificationsAsync(): the tray is emptied;
\* a throw is caught by the outer catch and logged
CheckInEnd_Dismiss ==
  /\ At("checkInEnd", "dismiss")
  /\ \/ /\ presented' = {}
        /\ Settle([call EXCEPT !.dismissOk = TRUE], Void)
     \/ /\ UNCHANGED presented
        /\ Settle(call, CheckInEndOnError)
  /\ UNCHANGED <<env, LiveActivity, permission, scheduled, activities, nextId, support>>

NextCheckIn ==
  \/ \E sid \in Subjects : CheckInStart_Call(sid)
  \/ \E sid \in Subjects : CheckInEnd_Call(sid)
  \/ CheckIn_Import
  \/ CheckInStart_StartActivity
  \/ CheckInStart_Schedule
  \/ CheckInEnd_EndActivity
  \/ CheckInEnd_Dismiss

Next == NextShift \/ NextLive \/ NextCheckIn \/ NextPermission

Spec == Init /\ [][Next]_vars

\* ------------------------------------------------------------------------
\* Two calls of the shift reminder service in flight at once
\* ------------------------------------------------------------------------

\* the module shapes of a device with no activity surface and with a full one
RaceModules ==
  { [loads |-> FALSE, fns |-> {}],
    [loads |-> TRUE,  fns |-> {"startActivity", "updateActivity", "dismissActivity"}] }

\* startShiftReminder({shiftId: sid, startTime: t}) has been called and is
\* suspended at its first await; cancelShiftReminder(sid) has been called
\* after it, without awaiting it, and is suspended at its first await
InitRace ==
  /\ service = "race"
  /\ os \in Platforms
  /\ activityModule \in RaceModules
  /\ liveModule = NoModule
  /\ userAgent = NoWindow
  /\ permission = "granted"
  /\ LiveActivity = [loaded |-> FALSE, fns |-> {}]
  /\ scheduled = {}
  /\ presented = {}
  /\ activities = {}
  /\ nextId = 1
  /\ support = [reported |-> FALSE, liveActivitySupported |-> FALSE,
                notificationsSupported |-> FALSE]
  /\ \E sid \in Subjects, t \in StartTimes :
       /\ call = [Idle EXCEPT !.op = "shiftStart", !.sid = sid, !.pc = "configure",
                              !.startTime = t, !.kind = "start"]
       /\ other = [Idle EXCEPT !.op = "shiftCancel", !.sid = sid, !.kind = "start",
                               !.pc = IF os = "ios" THEN "import" ELSE "list"]
  /\ prev = Summary(Idle)
  /\ ncalls = 2
  /\ InitAppIdle

\* the event loop resumes the other call: the promise it awaits has settled
Resume ==
  /\ service = "race"
  /\ other.pc # "done"
  /\ call' = other
  /\ other' = call
  /\ UNCHANGED <<os, activityModule, liveModule, userAgent, service, LiveActivity,
                 permission, scheduled, presented, activities, nextId, support,
                 prev, ncalls, app>>

NextRace ==
  \/ Resume
  \/ Shift_Configure
  \/ ShiftStart_Import
  \/ Shift_StartActivity
  \/ Shift_Schedule
  \/ ShiftCancel_Import
  \/ ShiftCancel_DismissActivity
  \/ ShiftCancel_List
  \/ ShiftCancel_CancelNext

SpecRace == InitRace /\ [][NextRace]_vars

\* ------------------------------------------------------------------------
\* Check-in storage (part_000, lines 1-111)
\* ------------------------------------------------------------------------

StorageIds == {"a", "b"}
\* the entries a caller saves: new ones, and one that carries amount and notes
SaveInputs == {Fresh("a"), Fresh("b"), Entry("a", FALSE, Undefined, "20", "n0")}
\* the optional arguments of markCheckInComplete
MarkAmounts == {Undefined, "10"}
MarkNotes == {Undefined, "n1"}
\* the arguments of setActiveShift
ShiftInputs == {Null, Some(Fresh("a")), Some(Fresh("b"))}

\* everything a storage step leaves alone besides the store and the jobs
storageFrame == <<reminders, service, screen>>

\* calls are made one after the other in the storage service
CanStore == service = "storage" /\ jobs[1].pc \in {"idle", "done"} /\ ncalls < MaxCalls

Job(op, pc) == [NoJob EXCEPT !.op = op, !.pc = pc, !.hist0 = AsyncStorage.history]

StartJob(j) ==
  /\ jobs' = [jobs EXCEPT ![1] = j]
  /\ ncalls' = ncalls + 1
  /\ UNCHANGED <<AsyncStorage, lastActive, storageFrame>>

\* saveCheckIn(entry) is called
SaveCheckIn_Call(e) ==
  CanStore /\ StartJob([Job("saveCheckIn", "read") EXCEPT !.entry = e])

\* markCheckInComplete(id, receiptUri, amount, notes) is called
MarkCheckInComplete_Call(id, amount, notes) ==
  CanStore /\ StartJob([Job("markCheckInComplete", "read") EXCEPT
                          !.id = id, !.receiptUri = "r1", !.amount = amount, !.notes = notes])

\* getHistory() is called by the application
GetHistory_Call == CanStore /\ StartJob(Job("getHistory", "read"))

\* list.findIndex((e) => e.id === id), counted from 1; 0 where findIndex
\* gives -1
findIndex(list, id) ==
  IF \E i \in 1..Len(list) : list[i].id = id
  THEN CHOOSE i \in 1..Len(list) :
         list[i].id = id /\ \A k \in 1..(i - 1) : list[k].id # id
  ELSE 0

\* the assignments of markCheckInComplete to list[idx]
Marked(list, j) ==
  LET idx == findIndex(list, j.id)
  IN  [list EXCEPT ![idx] =
         [@ EXCEPT !.completed = TRUE, !.receiptUri = j.receiptUri,
                   !.amount = IF j.amount # Undefined THEN j.amount ELSE @,
                   !.notes = IF j.notes # Undefined THEN j.notes ELSE @]]

\* what getHistory() gives when AsyncStorage.getItem throws: its catch logs
\* and returns the empty list
GetHistoryOnError(stored) == <<>>

\* list.unshift(entry)
Unshift(list, entry) == <<entry>> \o list

\* const list = await getHistory(): str ? JSON.parse(str) : [], and what the
\* caller does with the list before its next await
History_Read(i) ==
  /\ jobs[i].pc = "read"
  /\ \E failed \in BOOLEAN :
       LET stored == IF AsyncStorage.history.set THEN Parse(AsyncStorage.history.val)
                     ELSE <<>>
           list   == IF failed THEN GetHistoryOnError(stored) ELSE stored
           j      == [jobs[i] EXCEPT !.readFailed = failed]
           k      == IF j.op = "saveCheckIn"
                       THEN [j EXCEPT !.list = Unshift(list, j.entry), !.pc = "write"]
                     ELSE IF j.op = "markCheckInComplete" /\ findIndex(list, j.id) > 0
                       THEN [j EXCEPT !.list = Marked(list, j), !.pc = "write"]
                     ELSE [j EXCEPT !.list = list, !.pc = "done", !.status = "ok"]
       IN  jobs' = [jobs EXCEPT ![i] = k]
  /\ UNCHANGED <<AsyncStorage, lastActive, ncalls, storageFrame>>

\* await AsyncStorage.setItem(HISTORY_KEY, JSON.stringify(list)); a throw is
\* logged and thrown again
History_Write(i) ==
  /\ jobs[i].pc = "write"
  /\ \/ /\ AsyncStorage' = [AsyncStorage EXCEPT
                             !.history = [set |-> TRUE, val |-> Stringify(jobs[i].list)]]
        /\ jobs' = [jobs EXCEPT ![i] = [@ EXCEPT !.pc = "done", !.status = "ok",
                                                 !.wrote = TRUE]]
     \/ /\ UNCHANGED AsyncStorage
        /\ jobs' = [jobs EXCEPT ![i] = [@ EXCEPT !.pc = "done", !.status = "throw"]]
  /\ UNCHANGED <<lastActive, ncalls, storageFrame>>

\* setActiveShift(shift) is called
SetActiveShift_Call(shift) ==
  CanStore /\ StartJob([Job("setActiveShift", "writeActive") EXCEPT !.shift = shift])

\* await AsyncStorage.removeItem(ACTIVE_SHIFT_KEY) for null, else
\* await AsyncStorage.setItem(ACTIVE_SHIFT_KEY, JSON.stringify(shift))
Active_Write ==
  /\ jobs[1].pc = "writeActive"
  /\ \/ /\ AsyncStorage' = [AsyncStorage EXCEPT !.active =
                              IF jobs[1].shift.set
                              THEN [set |-> TRUE, val |-> StringifyEntry(jobs[1].shift.val)]
                              ELSE [set |-> FALSE, val |-> NoEntry]]
        /\ lastActive' = jobs[1].shift
        /\ jobs' = [jobs EXCEPT ![1] = [@ EXCEPT !.pc = "done", !.status = "ok",
                                                 !.wrote = TRUE]]
     \/ /\ UNCHANGED <<AsyncStorage, lastActive>>
        /\ jobs' = [jobs EXCEPT ![1] = [@ EXCEPT !.pc = "done", !.status = "throw"]]
  /\ UNCHANGED <<ncalls, storageFrame>>

\* getActiveShift() is called
GetActiveShift_Call == CanStore /\ StartJob(Job("getActiveShift", "readActive"))

\* what getActiveShift() gives when AsyncStorage.getItem throws: null
GetActiveOnErrorKeepsStored(stored) == stored
GetActiveOnError(stored) == Null

\* const str = await AsyncStorage.getItem(ACTIVE_SHIFT_KEY);
\* return str ? JSON.parse(str) : null
Active_Read ==
  /\ jobs[1].pc = "readActive"
  /\ \E failed \in BOOLEAN :
       LET stored == IF AsyncStorage.active.set
                     THEN Some(ParseEntry(AsyncStorage.active.val)) ELSE Null
       IN  jobs' = [jobs EXCEPT ![1] =
                      [@ EXCEPT !.pc = "done", !.status = "ok", !.readFailed = failed,
                                !.value = IF failed THEN GetActiveOnError(stored)
                                          ELSE stored]]
  /\ UNCHANGED <<AsyncStorage, lastActive, ncalls, storageFrame>>

InitStorageIdle ==
  /\ os = "web"
  /\ activityModule = NoModule
  /\ liveModule = NoModule
  /\ userAgent = NoWindow
  /\ permission = "granted"
  /\ LiveActivity = [loaded |-> FALSE, fns |-> {}]
  /\ scheduled = {}
  /\ presented = {}
  /\ activities = {}
  /\ nextId = 1
  /\ support = [reported |-> FALSE, liveActivitySupported |-> FALSE,
                notificationsSupported |-> FALSE]
  /\ call = Idle
  /\ prev = Summary(Idle)
  /\ other = Idle
  /\ lastActive = Null
  /\ screen = NoScreen

\* an empty store, calls made one after the other
InitStorage ==
  /\ service = "storage"
  /\ InitStorageIdle
  /\ AsyncStorage = [history |-> NoItem, active |-> [set |-> FALSE, val |-> NoEntry]]
  /\ jobs = [i \in 1..2 |-> NoJob]
  /\ ncalls = 0

\* the entries of two calls made without awaiting the first
OverlapFirst == Fresh("b")
OverlapSecond == Fresh("c")

\* saveCheckIn(b) has been called and, before it settled, saveCheckIn(c) or
\* markCheckInComplete('a', 'r1'); the store is empty or holds entry a
InitOverlap ==
  /\ service = "overlap"
  /\ InitStorageIdle
  /\ \E h \in {NoItem, [set |-> TRUE, val |-> Stringify(<<Fresh("a")>>)]} :
       /\ AsyncStorage = [history |-> h, active |-> [set |-> FALSE, val |-> NoEntry]]
       /\ \E second \in {[Job("saveCheckIn", "read") EXCEPT !.entry = OverlapSecond],
                         [Job("markCheckInComplete", "read") EXCEPT
                            !.id = "a", !.receiptUri = "r1"]} :
            jobs = [i \in 1..2 |->
                      [(IF i = 1 THEN [Job("saveCheckIn", "read") EXCEPT !.entry = OverlapFirst]
                        ELSE second) EXCEPT !.hist0 = h]]
  /\ ncalls = 2

\* ------------------------------------------------------------------------
\* Home screen (src/app/index.tsx)
\* ------------------------------------------------------------------------

\* mockHistory of loadData
MockHistory ==
  << [id |-> 1, status |-> "checked_in"],
     [id |-> 2, status |-> "checked_out"],
     [id |-> 3, status |-> "checked_in"] >>

CanPress == service = "home" /\ ncalls < MaxCalls

\* a handler has run from start to end (none of them awaits anything): the
\* state it leaves, the clock having advanced
Rendered(op, sc) ==
  /\ screen' = [sc EXCEPT !.isLoading = FALSE, !.clock = screen.clock + 1,
                          !.last = [op |-> op, history |-> screen.checkInHistory,
                                    activeShift |-> screen.activeShift]]
  /\ ncalls' = ncalls + 1
  /\ UNCHANGED <<reminders, service, AsyncStorage, jobs, lastActive>>

\* loadData(): setActiveShift(null), setCheckInHistory(mockHistory),
\* setIsCheckedIn(false)
loadData ==
  /\ CanPress
  /\ Rendered("loadData", [screen EXCEPT !.activeShift = NoShift,
                                         !.checkInHistory = MockHistory,
                                         !.isCheckedIn = NoShift.set])

\* setIsCheckedIn(...) of handleCheckIn
CheckInFlagStale(flag) == flag
CheckInFlag(flag) == TRUE

\* handleCheckIn(): the new shift and the new entry take Date.now() as id
handleCheckIn ==
  /\ CanPress
  /\ Rendered("handleCheckIn",
              [screen EXCEPT !.activeShift = [set |-> TRUE, id |-> screen.clock],
                             !.isCheckedIn = CheckInFlag(@),
                             !.checkInHistory =
                                <<[id |-> screen.clock, status |-> "checked_in"]>> \o @])

\* handleCheckOut(): everything is inside `if (activeShift)`
handleCheckOut ==
  /\ CanPress
  /\ IF screen.activeShift.set
     THEN Rendered("handleCheckOut",
                   [screen EXCEPT !.activeShift = NoShift,
                                  !.isCheckedIn = FALSE,
                                  !.checkInHistory =
                                     <<[id |-> screen.clock, status |-> "checked_out"]>> \o @])
     ELSE Rendered("handleCheckOut", screen)

\* the screen has mounted; its first effect (loadData) has not run yet
InitHome ==
  /\ service = "home"
  /\ os = "web"
  /\ activityModule = NoModule
  /\ liveModule = NoModule
  /\ userAgent = NoWindow
  /\ permission = "granted"
  /\ LiveActivity = [loaded |-> FALSE, fns |-> {}]
  /\ scheduled = {}
  /\ presented = {}
  /\ activities = {}
  /\ nextId = 1
  /\ support = [reported |-> FALSE, liveActivitySupported |-> FALSE,
                notificationsSupported |-> FALSE]
  /\ call = Idle
  /\ prev = Summary(Idle)
  /\ other = Idle
  /\ AsyncStorage = [history |-> NoItem, active |-> [set |-> FALSE, val |-> NoEntry]]
  /\ jobs = [i \in 1..2 |-> NoJob]
  /\ lastActive = Null
  /\ \E n \in Nows : screen = [NoScreen EXCEPT !.clock = n]
  /\ ncalls = 0

InitApp == InitStorage \/ InitOverlap \/ InitHome

NextApp ==
  \/ \E e \in SaveInputs : SaveCheckIn_Call(e)
  \/ \E id \in StorageIds, amount \in MarkAmounts, notes \in MarkNotes :
       MarkCheckInComplete_Call(id, amount, notes)
  \/ GetHistory_Call
  \/ \E i \in 1..2 : History_Read(i)
  \/ \E i \in 1..2 : History_Write(i)
  \/ \E shift \in ShiftInputs : SetActiveShift_Call(shift)
  \/ Active_Write
  \/ GetActiveShift_Call
  \/ Active_Read
  \/ loadData
  \/ handleCheckIn
  \/ handleCheckOut

SpecApp == InitApp /\ [][NextApp]_vars

\* ------------------------------------------------------------------------
\* Properties
\* ------------------------------------------------------------------------
StartOps == {"shiftStart", "liveStart", "checkInStart"}
SendOps == {"liveStart", "send"}
EndOps == {"liveEnd", "checkInEnd"}
Done == call.pc = "done"

\* the notifications this call added to the notification centre
NewNotifs == {n \in scheduled \cup presented : n \notin call.before}
\* the resources this call added
NewResources == {r \in Outstanding : r \notin call.before}

\* C1: a start whose activity start threw returns a success of notification
\* type carrying the id of the notification it scheduled, and nothing is
\* thrown to the caller: whenever the notification provider did not fail in
\* the call, and whenever it did schedule a notification.
C1_FallbackTransparent ==
  (Done /\ call.op \in StartOps /\ call.startThrew) =>
     /\ ~call.notifyFailed =>
          /\ call.res.status = "ok"
          /\ call.res.type = "notification"
          /\ call.res.id \in Ids(NewNotifs)
     /\ NewNotifs # {} =>
          /\ call.res.status = "ok"
          /\ call.res.type = "notification"
          /\ Ids(NewNotifs) = {call.res.id}

C1_Witness ==
  /\ Done /\ call.op \in StartOps /\ call.startThrew
  /\ call.res.status = "ok" /\ call.res.type = "notification"
  /\ call.res.id \in Ids(NewNotifs)

\* the activity start threw and no notification was scheduled either
BothFailed ==
  /\ Done /\ call.op \in StartOps
  /\ call.startThrew /\ call.notifyFailed /\ NewNotifs = {}

C3_RetryOnceAfterTimer ==
  call.op \in SendOps =>
     /\ call.nSchedule <= 2
     /\ call.nSchedule = 2 => call.timerFired
     /\ (call.pc \in {"getPermissions", "requestPermissions", "schedule"}
            /\ call.notifyFailed) => call.timerFired
     /\ (Done /\ call.timerFired /\ NewNotifs # {}) =>
          /\ call.nSchedule \in {1, 2}
          /\ call.res.status = "ok"
          /\ call.res.type = "notification"
          /\ Ids(NewNotifs) = {call.res.id}

C3_Witness ==
  /\ Done /\ call.op = "send" /\ call.nSchedule = 2 /\ call.timerFired
  /\ call.res.status = "ok" /\ Ids(NewNotifs) = {call.res.id}

\* the first attempt and the retry of a send have both failed
RetryExhausted ==
  /\ Done /\ call.op \in SendOps
  /\ call.timerFired /\ call.res.status # "ok"

ComputedTrigger ==
  \/ call.op \in {"shiftStart", "shiftEnd"} /\ call.nSchedule >= 1
  \/ call.op = "trigger" /\ Done

\* C5: the trigger delay handed to the scheduler is at least 1 second, and it
\* is exactly 1 whenever the scheduled time is in the past or less than the
\* lead time plus one second ahead of the current time.
C5_TriggerClamped ==
  ComputedTrigger =>
     /\ call.trigger >= 1
     /\ (call.startTime - call.now < (LeadSeconds + 1) * MsPerSecond) => call.trigger = 1

C5_Witness ==
  /\ Done /\ call.op = "shiftStart" /\ call.nSchedule = 1
  /\ call.startTime < call.now /\ call.trigger = 1

\* C6: a startShiftReminder that made no activity start and whose schedule
\* succeeded made exactly one schedule call, with a trigger of (whole seconds
\* from now to the scheduled time) - 900 whenever that is at least 1: 300
\* seconds for a scheduled time 20 minutes ahead.
C6_OneScheduleLeadTime ==
  (Done /\ call.op = "shiftStart" /\ call.nStart = 0 /\ call.res.status = "ok") =>
     LET whole == (call.startTime - call.now) \div 1000
     IN  /\ call.nSchedule = 1
         /\ Cardinality(NewNotifs) = 1
         /\ call.res.type = "notification"
         /\ whole - 900 >= 1 => call.trigger = whole - 900
         /\ call.startTime = call.now + 20 * 60 * 1000 => call.trigger = 300

C6_Witness ==
  /\ Done /\ call.op = "shiftStart" /\ call.nStart = 0 /\ call.res.status = "ok"
  /\ call.startTime = call.now + 20 * 60 * 1000 /\ call.trigger = 300

\* C7: when the activity start succeeds, it was invoked exactly once, no
\* notification is scheduled, and the result is of activity type and carries
\* the id of the subject's activity.
C7_ActivityOnly ==
  (Done /\ call.op \in StartOps /\ call.startOk) =>
     /\ call.nStart = 1
     /\ call.nSchedule = 0
     /\ NewNotifs = {}
     /\ call.res.status = "ok"
     /\ call.res.type = "activity"
     /\ call.res.id \in Ids({a \in activities : a.sid = call.sid})

C7_Witness ==
  /\ Done /\ call.op \in StartOps /\ call.startOk /\ call.nStart = 1
  /\ call.res.type = "activity" /\ NewNotifs = {}

\* C8: a successful start returns one handle, which names exactly one
\* outstanding resource of the subject (an activity or a notification, by the
\* result's type); a failed start returns none and adds no resource; and once
\* the service's support report has said that activities are not supported,
\* the handle of a successful start is a notification.
C8_OneHandle ==
  (Done /\ call.op \in StartOps) =>
     /\ call.res.status = "ok" =>
          /\ Cardinality({r \in OutstandingFor(call.sid) : r.id = call.res.id}) = 1
          /\ call.res.type = "activity" <=> call.res.id \in Ids(activities)
          /\ call.res.type = "notification" <=> call.res.id \in Ids(scheduled \cup presented)
          /\ NewResources \subseteq {r \in Outstanding : r.id = call.res.id}
     /\ call.res.status # "ok" =>
          /\ call.res.id = NoId
          /\ NewResources = {}
     /\ (call.res.status = "ok" /\ support.reported /\ ~support.liveActivitySupported) =>
          /\ call.res.type = "notification"
          /\ call.res.id \in Ids(NewNotifs)

C8_Witness ==
  /\ Done /\ call.op \in StartOps /\ call.res.status = "ok"
  /\ support.reported /\ ~support.liveActivitySupported
  /\ call.res.type = "notification" /\ call.res.id \in Ids(NewNotifs)

\* the resources that the start operations create
StartResources ==
  {r \in Outstanding :
     \/ r.type \in {"shift-reminder", "transaction", "shift_reminder"}
     \/ r.id.k \in {"shift-start", "activity", "checkIn"}}

\* C9 as claimed: a subject never has more than one outstanding reminder
\* resource (live activity or notification); a second start for a subject
\* adds none.
C9_AtMostOneOutstanding ==
  \A sid \in Subjects : Cardinality({r \in StartResources : r.sid = sid}) <= 1

\* an end call has settled right after an end call for the same reminder
EndTwice ==
  /\ Done /\ call.op \in EndOps
  /\ prev.op = call.op /\ prev.sid = call.sid /\ prev.arg = call.arg

\* C10 as claimed: after two end calls in a row for a subject neither has
\* thrown and no resource of the subject is outstanding.
C10_Original ==
  EndTwice =>
     /\ call.res.status # "throw" /\ prev.status # "throw"
     /\ OutstandingFor(call.sid) = {}

\* C10 as amended: two end calls in a row never throw; the subject's activity
\* is gone when the native end call of one of them resolved, its shown
\* notifications are gone when the dismiss of one of them resolved
\* (part_001), and the second call adds no resource.  Nothing more: a native
\* call that throws leaves its resource outstanding.
C10_EndTwiceBestEffort ==
  EndTwice =>
     /\ call.res = Void /\ prev.status = "void"
     /\ NewResources = {}
     /\ (call.op = "checkInEnd" /\ (call.endOk \/ prev.endOk)) =>
          {a \in activities : a.sid = call.sid} = {}
     /\ (call.op = "checkInEnd" /\ (call.dismissOk \/ prev.dismissOk)) =>
          {n \in presented : n.sid = call.sid} = {}
     /\ (call.op = "liveEnd" /\ (call.endOk \/ prev.endOk)) =>
          call.arg \notin Ids(activities)

C10_Witness ==
  /\ EndTwice /\ prev.had /\ (prev.endOk \/ prev.dismissOk)
  /\ call.res = Void /\ OutstandingFor(call.sid) = {}

\* the operations that take a reminder down
TeardownOps == {"shiftCancel", "liveEnd", "checkInEnd"}

\* C11: an end or cancel call never throws, whichever of the native calls
\* inside it fail: the void ones return, cancelShiftReminder returns a result
\* object (success false when the notification provider threw).
C11_TeardownNeverThrows ==
  (Done /\ call.op \in TeardownOps) =>
     /\ call.res.status # "throw"
     /\ call.op \in EndOps => call.res = Void
     /\ call.op = "shiftCancel" =>
          call.res = (IF call.notifyFailed THEN Fail ELSE Ok("none", NoId))

\* a cancel in which the activity dismissal was not available or threw and
\* the notification provider threw as well
C11_Witness ==
  /\ Done /\ call.op = "shiftCancel" /\ os = "ios"
  /\ "dismissActivity" \in getActivityModule
  /\ ~call.endOk /\ call.notifyFailed /\ call.res = Fail

\* a cancel for a subject that had nothing outstanding when it was called
CancelOfNothing ==
  /\ Done /\ call.op = "shiftCancel"
  /\ {r \in call.before : r.sid = call.sid} = {}

\* C12 as claimed: a cancel for a subject that has no reminder returns success
\* and changes nothing.
C12_Original ==
  CancelOfNothing =>
     /\ call.res.status = "ok"
     /\ Outstanding = call.before

\* C12 as amended: a cancel for a subject that has no reminder cancels no
\* notification and changes no reminder; it returns success unless listing
\* the scheduled notifications threw, and then it returns success false.
C12_CancelOfNothingNoOp ==
  CancelOfNothing =>
     /\ Outstanding = call.before
     /\ call.todo = {} /\ ~call.dismissOk
     /\ call.res = (IF call.notifyFailed THEN Fail ELSE Ok("none", NoId))

\* such a cancel with another subject's notification scheduled meanwhile
C12_Witness ==
  /\ CancelOfNothing /\ call.res.status = "ok"
  /\ \E n \in scheduled : n.sid # call.sid /\ n \in call.before

\* what the probe answered: to its caller, or into the support report
ProbeDone == Done /\ call.op \in {"probe", "supportInfo"}
ProbeAnswer ==
  IF call.op = "probe" THEN call.liveActivitySupported ELSE support.liveActivitySupported

\* C13: the capability probe does not throw and changes nothing; it answers
\* true exactly when the user agent is detected, names an iOS device and
\* carries a version that is not below 16.1, and false in every other case.
C13_ProbeExact ==
  ProbeDone =>
     /\ call.res.status = "ok"
     /\ Outstanding = call.before
     /\ ProbeAnswer =
          (/\ userAgent.window /\ userAgent.ios /\ userAgent.hasVer
           /\ ~(\/ userAgent.major < 16
                \/ (userAgent.major = 16 /\ userAgent.minor < 1)))

\* the probe answered true for a major version above 16 with minor version 0
C13_Witness ==
  /\ ProbeDone /\ call.op = "probe" /\ ProbeAnswer
  /\ userAgent.major = 17 /\ userAgent.minor = 0

\* C14 as claimed: within one caller-level operation the permission is
\* requested at most once, and never while its status is denied.
C14_RequestOnceNeverWhenDenied ==
  call.nRequest <= 1 /\ ~call.reqWhenDenied

\* C15 as claimed: a send whose permission request was refused never calls
\* schedule and rejects with an error that is not the one every other
\* notification failure is rejected with.
C15_RefusedIsDistinguished ==
  (Done /\ call.op = "send" /\ call.permRefused) =>
     /\ call.nSchedule = 0
     /\ call.res.status = "throw"
     /\ call.res.err # SendError

\* C16: in a batch update no update is dropped because of another: every
\* update given is pending, resolved or failed at any time; when the batch
\* returns none is pending, the ones that did not fail were all carried out
\* (on a supported device), and the batch returns without throwing.
C16_BatchIndependent ==
  call.op = "batch" =>
     /\ call.liveActivitySupported =>
          call.todo \cup call.updated \cup call.failed = call.items
     /\ Done =>
          /\ call.res = Void
          /\ call.todo = {}
          /\ call.updated \cap call.failed = {}
          /\ ~call.liveActivitySupported => call.updated \cup call.failed = {}

\* a batch of two in which one update failed and the other was carried out
C16_Witness ==
  /\ Done /\ call.op = "batch" /\ call.res = Void
  /\ call.failed # {} /\ call.updated # {}
  /\ call.updated \cup call.failed = call.items

\* a start on iOS that found no usable activity module: the import threw, or
\* the module has no startActivity
StartWithoutModule ==
  /\ Done /\ os = "ios"
  /\ \/ call.op = "shiftStart" /\ "startActivity" \notin getActivityModule
     \/ call.op = "checkInStart"
          /\ (~liveModule.loads \/ "startActivity" \notin liveModule.fns)

\* C17: a start that finds no usable activity module starts no activity and
\* behaves as after a failed activity start: it schedules the notification
\* and returns a success of notification type carrying its id; only a
\* failure of the notification provider makes it fail, as it does there
\* (success false in the shift service, Error in part_001).
C17_NoModuleFallsBack ==
  StartWithoutModule =>
     /\ call.nStart = 0 /\ ~call.startThrew
     /\ {a \in activities : a \notin call.before} = {}
     /\ ~call.notifyFailed =>
          /\ call.res.status = "ok"
          /\ call.res.type = "notification"
          /\ Ids(NewNotifs) = {call.res.id}
     /\ call.notifyFailed =>
          /\ NewNotifs = {}
          /\ call.res = (IF call.op = "shiftStart" THEN Fail ELSE Throw("Error"))

\* the import threw and the start returned the fallback notification
C17_Witness ==
  /\ StartWithoutModule /\ call.op = "shiftStart" /\ ~activityModule.loads
  /\ call.res.status = "ok" /\ call.res.type = "notification"
  /\ call.res.id \in Ids(scheduled)

\* the notifications of a subject, and those among them still to be delivered
NotificationsFor(sid) == {n \in scheduled \cup presented : n.sid = sid}
ScheduledFor(sid) == {n \in scheduled : n.sid = sid}

\* C18 as claimed: once an end or cancel call for a subject has returned
\* with the notification provider having answered every call made to it, no
\* notification of that subject is left: none scheduled after a cancel, none
\* shown after a part_001 end.
C18_TeardownRemovesNotifications ==
  /\ (Done /\ call.op = "shiftCancel" /\ call.res.status = "ok") =>
        ScheduledFor(call.sid) = {}
  /\ (Done /\ call.op = "checkInEnd" /\ call.dismissOk) =>
        {n \in presented : n.sid = call.sid} = {}

\* C19 as claimed: when an end or cancel call for a subject has returned,
\* every reminder another subject had when it was called is still there.
C19_OthersUntouched ==
  (Done /\ call.op \in TeardownOps) =>
     \A r \in call.before : r.sid # call.sid => r \in Outstanding

\* C20 as claimed: every notification a start path schedules carries the
\* subject id in the field the cancel filters on, data.shiftId.
C20_Original ==
  \A n \in scheduled \cup presented :
     n.type \in {"shift-reminder", "shift_reminder"} => n.key = "shiftId"

\* C20 as amended: every notification the shift service schedules carries the
\* subject id in data.shiftId, the field cancelShiftReminder filters on, while
\* those of part_001 carry it in data.checkInId and those of the live-activity
\* service in data.transactionId; a cancelShiftReminder that returned success
\* without having dismissed an activity leaves no scheduled notification of
\* its subject.
C20_ShiftPayloadMatchesCancel ==
  /\ \A n \in scheduled \cup presented :
        /\ n.type \in {"shift-reminder", "shift-end-reminder"} => n.key = "shiftId"
        /\ n.type = "shift_reminder" => n.key = "checkInId"
        /\ n.type \in {"transaction", "payload"} => n.key = "transactionId"
  /\ (Done /\ call.op = "shiftCancel" /\ call.res.status = "ok" /\ ~call.endOk) =>
        ScheduledFor(call.sid) = {}

\* off iOS, a start that scheduled the fallback notification was followed by
\* a cancel for the same subject that cancelled it
C20_Witness ==
  /\ Done /\ call.op = "shiftCancel" /\ os # "ios"
  /\ prev.op = "shiftStart" /\ prev.sid = call.sid /\ prev.status = "ok"
  /\ call.res.status = "ok" /\ call.dismissOk
  /\ ScheduledFor(call.sid) = {}

\* C21 as claimed: an update whose native update call failed has attempted a
\* fresh activity start.
C21_UpdateFailureRestarts ==
  (Done /\ call.op \in {"liveUpdate", "shiftEnd"} /\ call.failed # {}) =>
     call.nStart > 0

\* C22 as claimed: when an end call given the id of a notification that a
\* start had fallen back to has returned, that notification is gone.
C22_EndCancelsBoundNotification ==
  (Done /\ call.op = "liveEnd"
        /\ \E n \in call.before : n.id = call.arg /\ n.type = "transaction") =>
     call.arg \notin Ids(scheduled \cup presented)

\* C24 as claimed: a start that fell back to a notification because its
\* activity start threw has issued an end or dismiss for the activity it
\* attempted.
C24_FallbackIssuesCleanup ==
  (Done /\ call.op \in StartOps /\ call.startThrew /\ NewNotifs # {}) =>
     call.nEnd > 0

SupportDone == Done /\ call.op = "supportInit"

\* C25 as claimed: the support report does not throw; its activity flag is
\* true only on iOS with a module that has startActivity; its notification
\* flag is true exactly when the permission query did not throw.
C25_Original ==
  SupportDone =>
     /\ call.res.status = "ok" /\ support.reported
     /\ support.liveActivitySupported =>
          (os = "ios" /\ activityModule.loads /\ "startActivity" \in activityModule.fns)
     /\ support.notificationsSupported = ~call.notifyFailed

\* C25 as amended: the support report does not throw; when the
\* configureNotifications it runs after a successful permission query throws,
\* both flags are false; otherwise the activity flag is true exactly on iOS
\* with a loaded module that has startActivity, and the notification flag is
\* true exactly when the permission query did not throw.
C25_SupportReport ==
  SupportDone =>
     /\ call.res.status = "ok" /\ support.reported
     /\ call.configThrew =>
          /\ ~call.notifyFailed
          /\ ~support.liveActivitySupported /\ ~support.notificationsSupported
     /\ ~call.configThrew =>
          /\ support.liveActivitySupported =
               (os = "ios" /\ activityModule.loads /\ "startActivity" \in activityModule.fns)
          /\ support.notificationsSupported = ~call.notifyFailed

\* a second report in a row, computed again: the permission query threw
\* this time, on a platform whose activity flag is true
C25_Witness ==
  /\ SupportDone /\ prev.op = "supportInit" /\ prev.status = "ok"
  /\ call.notifyFailed /\ support.liveActivitySupported
  /\ ~support.notificationsSupported

\* the two calls of a race, whichever of them is running
RaceStart == IF call.op = "shiftStart" THEN call ELSE other
RaceCancel == IF call.op = "shiftCancel" THEN call ELSE other

\* both calls have returned success and no native call of either threw
RaceBothSucceeded ==
  /\ service = "race"
  /\ RaceStart.pc = "done" /\ RaceCancel.pc = "done"
  /\ RaceStart.res.status = "ok" /\ RaceCancel.res.status = "ok"
  /\ ~RaceStart.startThrew /\ ~RaceStart.notifyFailed
  /\ ~RaceCancel.notifyFailed /\ (RaceCancel.nEnd > 0 => RaceCancel.endOk)

\* C23 as claimed: a start and a cancel for one subject issued in that order
\* take effect in that order: when both have succeeded, no activity and no
\* scheduled notification of the subject is left.
C23_CancelAfterStartLeavesNothing ==
  RaceBothSucceeded =>
     {r \in scheduled \cup activities : r.sid = RaceStart.sid} = {}

\* a storage call made on its own has returned
StoreDone(op) ==
  /\ service = "storage"
  /\ jobs[1].op = op /\ jobs[1].pc = "done"
\* the history in the store, and the one a call found when it was made
StoredHistory ==
  IF AsyncStorage.history.set THEN Parse(AsyncStorage.history.val) ELSE <<>>
HistoryBefore(j) == IF j.hist0.set THEN Parse(j.hist0.val) ELSE <<>>

\* C26 as claimed: after a saveCheckIn(e) that returned, the stored history
\* is e followed by the history stored before the call, also when reading
\* that history failed.
C26_SaveKeepsHistory ==
  (StoreDone("saveCheckIn") /\ jobs[1].status = "ok") =>
     StoredHistory = <<jobs[1].entry>> \o HistoryBefore(jobs[1])

\* two overlapping calls have both returned, and both had read the history
OverlapDone ==
  /\ service = "overlap"
  /\ \A i \in 1..2 :
       jobs[i].pc = "done" /\ jobs[i].status = "ok" /\ ~jobs[i].readFailed

\* C27 as claimed: after two overlapping calls have returned, the stored
\* history holds the entry of every save among them and the entry that a
\* markCheckInComplete among them wrote is completed.
C27_OverlapKeepsBoth ==
  OverlapDone =>
     \A i \in 1..2 :
        /\ jobs[i].op = "saveCheckIn" =>
             \E k \in 1..Len(StoredHistory) : StoredHistory[k] = jobs[i].entry
        /\ (jobs[i].op = "markCheckInComplete" /\ jobs[i].wrote) =>
             \E k \in 1..Len(StoredHistory) :
                StoredHistory[k].id = jobs[i].id /\ StoredHistory[k].completed

\* C28 as claimed: after a markCheckInComplete that returned, when an entry
\* of the history had the id, the first such entry is completed and carries
\* the receipt, amount and notes only if supplied, and nothing else differs;
\* when no entry had the id, nothing was written.
C28_MarkChangesFirstMatch ==
  (StoreDone("markCheckInComplete") /\ jobs[1].status = "ok") =>
     LET j   == jobs[1]
         old == HistoryBefore(j)
         new == StoredHistory
         M   == {i \in 1..Len(old) : old[i].id = j.id}
     IN  IF M = {} THEN ~j.wrote /\ AsyncStorage.history = j.hist0
         ELSE /\ Len(new) = Len(old)
              /\ \A i \in 1..Len(old) :
                   IF i \in M /\ \A k \in M : i <= k
                   THEN /\ new[i].id = old[i].id
                        /\ new[i].completed
                        /\ new[i].receiptUri = j.receiptUri
                        /\ new[i].amount =
                             (IF j.amount = Undefined THEN old[i].amount ELSE j.amount)
                        /\ new[i].notes =
                             (IF j.notes = Undefined THEN old[i].notes ELSE j.notes)
                   ELSE new[i] = old[i]

\* C29 as claimed: getActiveShift returns what the last successful
\* setActiveShift stored, null after setActiveShift(null) and before any;
\* setActiveShift leaves the history alone.
C29_Original ==
  /\ StoreDone("getActiveShift") => jobs[1].value = lastActive
  /\ (service = "storage" /\ jobs[1].op = "setActiveShift") =>
        AsyncStorage.history = jobs[1].hist0

\* C29 as amended: getActiveShift never throws; it returns what the last
\* successful setActiveShift stored (null after setActiveShift(null) and
\* before any) unless reading the store throws, and then it returns null;
\* setActiveShift leaves the history alone.
C29_ActiveShiftRoundTrip ==
  /\ StoreDone("getActiveShift") =>
        /\ jobs[1].status = "ok"
        /\ jobs[1].value = (IF jobs[1].readFailed THEN Null ELSE lastActive)
  /\ (service = "storage" /\ jobs[1].op = "setActiveShift") =>
        AsyncStorage.history = jobs[1].hist0

\* a shift was stored and read back, the history holding an entry meanwhile
C29_Witness ==
  /\ StoreDone("getActiveShift") /\ ~jobs[1].readFailed
  /\ jobs[1].value.set /\ jobs[1].value = lastActive
  /\ StoredHistory # <<>>

\* C30: on the home screen isCheckedIn is true exactly when there is an
\* active shift; handleCheckIn puts one checked_in entry before the history
\* it found; handleCheckOut puts one checked_out entry before it and clears
\* the active shift when there was one, and changes nothing when there was
\* none.
C30_HomeScreen ==
  service = "home" =>
     LET h == screen.checkInHistory
         l == screen.last
     IN  /\ screen.isCheckedIn = screen.activeShift.set
         /\ ~screen.isLoading
         /\ l.op = "handleCheckIn" =>
              /\ h # <<>> /\ Head(h).status = "checked_in"
              /\ Tail(h) = l.history
              /\ screen.activeShift.set
         /\ l.op = "handleCheckOut" =>
              IF l.activeShift.set
              THEN /\ h # <<>> /\ Head(h).status = "checked_out"
                   /\ Tail(h) = l.history
                   /\ ~screen.activeShift.set
              ELSE h = l.history /\ screen.activeShift = l.activeShift

\* loaded, checked in, checked out: two entries before the three loaded
C30_Witness ==
  /\ service = "home" /\ screen.last.op = "handleCheckOut"
  /\ screen.last.activeShift.set /\ ~screen.isCheckedIn
  /\ Len(screen.checkInHistory) = Len(MockHistory) + 2

====
